---------------------------- MODULE Spec2Model ----------------------------
(***************************************************************************)
(* Water meter collection daemon (src/water-python-api.py).                *)
(*                                                                         *)
(* The model follows WaterMeterDaemon.run() statement by statement: the    *)
(* program counter pc names the statement about to execute.  The signal    *)
(* handler may run between any two statements.  The store (the database    *)
(* server) and the meter (the HTTP endpoint) are the environment: every    *)
(* call into them draws its outcome from the outcomes the code handles.    *)
(***************************************************************************)
EXTENDS Integers, Sequences, FiniteSets

(***************************************************************************)
(* Bounds of the model.                                                    *)
(***************************************************************************)
\* Values of consecutive_failures above CfCap are folded onto CfCap.  The
\* code only ever compares the counter with >= max_consecutive_failures, so
\* with CfCap > max_consecutive_failures every folded value behaves alike.
CfCap == 6

\* The history counter of reads stops counting at OpCap; the other history
\* counters, of which only 0, 1 and "more" are ever told apart, at FewCap.
OpCap == 6

FewCap == 2

\* A sleep is cut into SleepTicks steps, so that a signal can arrive with
\* part of the sleep still ahead.
SleepTicks == 2

(***************************************************************************)
(* Program constants.                                                      *)
(***************************************************************************)
max_consecutive_failures == 5

Mandatory == {"total_liter_m3", "active_liter_lpm", "wifi_strength"}

required_fields == <<"total_liter_m3", "active_liter_lpm", "wifi_strength">>

\* The schema objects _setup_schema provisions, in the order it issues them.
SchemaOrder ==
    << "ext_timescaledb", "tbl_water_readings", "tbl_maintenance_log",
       "hyper_water_readings", "hyper_maintenance_log",
       "idx_water_readings_meter_time", "idx_maintenance_log_meter_time",
       "idx_maintenance_log_type" >>

SchemaObjects == { SchemaOrder[i] : i \in 1..Len(SchemaOrder) }

(***************************************************************************)
(* State.                                                                  *)
(***************************************************************************)
VARIABLES
    pc,                    \* the statement of run() about to execute
    running,               \* self.running
    db_conn,               \* self.db_conn: "None", or a handle "open"/"closed"
    consecutive_failures,  \* run()'s local counter
    reading_data,          \* run()'s local: what _read_meter returned
    exit_status,           \* -1 while the process lives, then its exit status
    sleepLeft,             \* ticks the current time.sleep still has to run
    db_user,               \* DB_USER is set and not empty
    db_password,           \* DB_PASSWORD is set and not empty
    handlers,              \* _signal_handler is installed for SIGINT, SIGTERM
    \* the store, as the server sees it
    dbExists,              \* the target database exists
    schema,                \* the schema objects present in the target database
    connAlive,             \* the link behind the held handle still works
    \* history, read by no action
    stopRequested,         \* _signal_handler has run at least once
    stopInSleep,           \* _signal_handler has run during a time.sleep
    cycleStop,             \* the reads and writes made before the first run
                           \* of _signal_handler inside a cycle (NoStop: none)
    outcome,               \* how the current cycle has gone so far
    cycleOps,              \* the calls of the current iteration, in order,
                           \* each with what it returned
    onlyMisses,            \* so far every health check passed, every read missed
    setupCalled,           \* _setup_schema has been called
    startup,               \* how run()'s startup has gone
    nHealth, nRead, nWrite,\* calls of _health_check, _read_meter, _store_reading
    nClose,                \* calls of close() on a target handle
    call,                  \* what the call run() has just made did; reset by
                           \* the daemon's next step
    \* the maintenance CLI
    command,               \* args.command ("none": no subcommand given)
    cliConn,               \* what main()'s connect_database() call returned
    cliRan                 \* how the command main() dispatched went

vars ==
    << pc, running, db_conn, consecutive_failures, reading_data, exit_status,
       sleepLeft, dbExists, schema, connAlive, stopRequested, stopInSleep,
       cycleStop, db_user, db_password, handlers,
       outcome, cycleOps, onlyMisses, setupCalled, startup, nHealth, nRead, nWrite,
       nClose, call, command, cliConn, cliRan >>

progVars == << pc, running, db_conn, consecutive_failures, reading_data,
               exit_status, sleepLeft >>
storeVars == << dbExists, schema, connAlive >>
confVars == << db_user, db_password, handlers >>
sigHist == << stopRequested, stopInSleep, cycleStop >>
cycleHist == << outcome, onlyMisses >>
startHist == << setupCalled, startup >>
opCounts == << nHealth, nRead, nWrite, nClose >>
histVars == << sigHist, cycleHist, startHist, opCounts >>
cliVars == << command, cliConn, cliRan >>

SleepPcs == {"sleep_interval", "sleep_health", "sleep_fault"}
CyclePcs == {"health", "read", "store"}
EndPcs == {"returned", "exited", "cli_exited", "cli_returned"}
\* the maintenance CLI (maintenance-logger.py), a program of its own
CliPcs == {"cli_main", "cli_init", "cli_connect", "cli_command",
           "cli_finally", "cli_exited", "cli_returned"}
\* the subcommands main() dispatches
Commands == {"salt", "log", "list", "last-salt", "last-change"}
\* inside an iteration of the loop, its sleeps apart
InCyclePcs == CyclePcs \cup {"budget", "running_check"}

NoStop == [reads |-> -1, writes |-> -1]

Bump(n) == IF n < OpCap THEN n + 1 ELSE n

BumpFew(n) == IF n < FewCap THEN n + 1 ELSE n

\* The record of one call of run(): op names the method, ret is what it
\* returned ("raise": an exception left it), and the other fields say what
\* it was given and what it did.
NoRow == [ total |-> "none", flow |-> "none", wifi |-> "none",
           ssid |-> "none", offset |-> "none", meter |-> "none",
           time |-> "none" ]

NoCall ==
    [ op |-> "none", ret |-> "none",
      probe |-> "none",      \* _health_check: the probe "ok" or "failed"
      connects |-> 0,        \* calls of _connect_database made
      events |-> << >>,      \* what was done on the server, in order
      fresh |-> FALSE,       \* a newly opened handle is now held
      held |-> "none",       \* self.db_conn when the call was made
      failAt |-> 0,          \* _setup_schema: the step that failed for an
                             \* outside reason (0: none)
      before |-> {},         \* _setup_schema: the schema objects found
      after |-> {},          \* _setup_schema: the schema objects left
      http |-> "none",       \* _read_meter: how the HTTP exchange went
      shape |-> "none",      \* _read_meter: the shape of the body received
      lacking |-> FALSE,     \* _read_meter: a mandatory field was absent
      numeric |-> FALSE,     \* _store_reading: the record is an object whose
                             \* mandatory values are all numbers
      offset |-> "none",     \* _store_reading: the record's offset field
      ssid |-> "none",       \* _store_reading: the record's wifi_ssid field
      stored |-> FALSE,      \* _store_reading: the server took the INSERT
      row |-> NoRow,         \* _store_reading: the row given to the INSERT
      log |-> {} ]           \* the levels of the log records emitted

BoolStr(b) == IF b THEN "true" ELSE "false"

(***************************************************************************)
(* Logging: the levels of the records each method emits (the root logger   *)
(* is set to INFO, so logger.debug emits nothing).                         *)
(***************************************************************************)
\* _connect_database: logger.info on each success and on "does not exist,
\* creating..."; logger.error in the outer handler
connect_log(ev) ==
    (IF \E i \in 1..Len(ev) : ev[i] \in {"target:opened", "target:missing"}
     THEN {"info"} ELSE {})
    \cup (IF \E i \in 1..Len(ev) : ev[i] = "target:opened"
          THEN {} ELSE {"error"})

\* _health_check: logger.warning when the probe fails, then what the
\* reconnection logs
health_log(probe, ev) ==
    IF probe = "failed" THEN {"warning"} \cup connect_log(ev) ELSE {}

\* _setup_schema: logger.info at the end, logger.error in the handler
setup_log(ret) == IF ret THEN {"info"} ELSE {"error"}

\* A _read_meter that returns None without a word
read_log_Silent(ret) == {}

\* _read_meter: logger.error before each `return None`
read_log(ret) == IF ret = "none" THEN {"error"} ELSE {}

\* _store_reading: logger.info after the INSERT, logger.error in the
\* handler
store_log(ret) ==
    CASE ret = "true" -> {"info"}
      [] ret = "false" -> {"error"}
      [] OTHER -> {}

\* run(): logger.error before each sys.exit(1), in `except Exception` and
\* before each `break`
run_log(branch) ==
    IF branch \in {"connect_failed", "schema_failed", "fault", "exhausted"}
    THEN {"error"} ELSE {}

(***************************************************************************)
(* The meter's responses.                                                  *)
(***************************************************************************)
\* A decoded JSON body.  For an object, val[f] is "absent", "num" (float()
\* and int() accept the value) or "bad" (they raise).  For an array or a
\* string, val[f] is "elem" when `f in data` is true.  A scalar (number,
\* true, false, null) supports no `in` at all.
ObjectBodies ==
    [ shape : {"object"}, val : [Mandatory -> {"absent", "num", "bad"}],
      offset : {"absent", "num", "bad"}, ssid : {"absent", "str"} ]

OtherBodies ==
    [ shape : {"array", "string"}, val : [Mandatory -> {"absent", "elem"}],
      offset : {"absent"}, ssid : {"absent"} ]
    \cup
    [ shape : {"scalar"}, val : [Mandatory -> {"absent"}],
      offset : {"absent"}, ssid : {"absent"} ]

NoneData ==
    [ shape |-> "none", val |-> [f \in Mandatory |-> "absent"],
      offset |-> "absent", ssid |-> "absent" ]

Bodies == ObjectBodies \cup OtherBodies

Responses ==
    [ http : {"neterr", "status", "badjson"}, body : {NoneData} ]
    \cup [ http : {"ok"}, body : Bodies ]

\* `field not in data`, for the first k required fields
MissingAmong(body, k) ==
    \E i \in 1..k : body.val[required_fields[i]] = "absent"

\* The body has not all three mandatory fields
Lacking(body) ==
    \/ body.shape # "object"
    \/ \E f \in Mandatory : body.val[f] = "absent"

\* A _read_meter without the `except json.JSONDecodeError` clause
read_meter_NoJsonClause(resp) ==
    IF resp.http = "badjson"
    THEN [ret |-> "raise", data |-> NoneData]
    ELSE IF resp.http # "ok"
    THEN [ret |-> "none", data |-> NoneData]
    ELSE IF resp.body.shape = "scalar"
    THEN [ret |-> "raise", data |-> NoneData]
    ELSE IF MissingAmong(resp.body, Len(required_fields))
    THEN [ret |-> "none", data |-> NoneData]
    ELSE [ret |-> "data", data |-> resp.body]

\* _read_meter: ret is "data" (the body is returned), "none" or "raise"
read_meter(resp) ==
    IF resp.http # "ok"
    THEN [ret |-> "none", data |-> NoneData]
    ELSE IF resp.body.shape = "scalar"
    THEN [ret |-> "raise", data |-> NoneData]
    ELSE IF MissingAmong(resp.body, Len(required_fields))
    THEN [ret |-> "none", data |-> NoneData]
    ELSE [ret |-> "data", data |-> resp.body]

\* A test that lets None through to the write
Truthy_Always(data) == TRUE

\* `if reading_data:` in run()
Truthy(data) == data.shape # "none"

(***************************************************************************)
(* The store gateway.                                                      *)
(***************************************************************************)
\* What the server does with each attempt of one _connect_database call:
\* first/retry: the target connection gets through (network, auth);
\* admin: the connection to "postgres" is opened; create: CREATE DATABASE.
ConnectOutcomes ==
    [ first : BOOLEAN, admin : BOOLEAN, create : BOOLEAN, retry : BOOLEAN ]

\* One _connect_database call with the administrative connection left
\* unclosed after a successful CREATE DATABASE
connect_events_NoClose(exists, o) ==
    IF ~o.first THEN << "target:refused" >>
    ELSE IF exists THEN << "target:opened" >>
    ELSE IF ~o.admin THEN << "target:missing", "admin:refused" >>
    ELSE IF ~o.create
    THEN << "target:missing", "admin:opened", "create:failed" >>
    ELSE << "target:missing", "admin:opened", "create:done",
            IF o.retry THEN "target:opened" ELSE "target:refused" >>

\* What one _connect_database call does on the server, in order:
\* "target:opened/refused/missing" is psycopg2.connect to the target
\* database (missing: 'database ... does not exist'), "admin:opened/refused"
\* the connection to "postgres", "create:done/failed" CREATE DATABASE,
\* "admin:closed" admin_conn.close().
connect_events(exists, o) ==
    IF ~o.first THEN << "target:refused" >>
    ELSE IF exists THEN << "target:opened" >>
    ELSE IF ~o.admin THEN << "target:missing", "admin:refused" >>
    ELSE IF ~o.create
    THEN << "target:missing", "admin:opened", "create:failed" >>
    ELSE << "target:missing", "admin:opened", "create:done", "admin:closed",
            IF o.retry THEN "target:opened" ELSE "target:refused" >>

\* A _connect_database that reports success whatever happened
connect_returns_Always(ev) == TRUE

\* _connect_database returns True after a psycopg2.connect to the target
\* that succeeded, and False from `except psycopg2.Error` otherwise
connect_returns(ev) == ev[Len(ev)] = "target:opened"

\* A failure path that clears self.db_conn
held_after_Cleared(held, opened) == IF opened THEN "open" ELSE "None"

\* self.db_conn after _connect_database: assigned only by the two
\* `self.db_conn = psycopg2.connect(...)`, that is when a connect returned
held_after(held, opened) == IF opened THEN "open" ELSE held

\* _connect_database.  held is self.db_conn before the call.  fresh: a
\* newly opened handle was assigned to self.db_conn.
connect_database(held, alive, exists, sch, o) ==
    LET ev == connect_events(exists, o)
        opened == ev[Len(ev)] = "target:opened"
        created == \E i \in 1..Len(ev) : ev[i] = "create:done"
    IN  [ ret |-> connect_returns(ev),
          conn |-> held_after(held, opened),
          alive |-> IF opened THEN TRUE ELSE alive,
          exists |-> (exists \/ created),
          schema |-> IF created THEN {} ELSE sch,
          fresh |-> opened,
          probe |-> "none",
          connects |-> 1,
          events |-> ev ]

\* _health_check's probe, "SELECT 1" on the held handle
ProbeOk(held, alive) == held = "open" /\ alive

\* A _health_check that reports the failed probe without reconnecting
health_check_NoReconnect(held, alive, exists, sch, o) ==
    [ ret |-> ProbeOk(held, alive), conn |-> held, alive |-> alive,
      exists |-> exists, schema |-> sch, fresh |-> FALSE,
      probe |-> IF ProbeOk(held, alive) THEN "ok" ELSE "failed",
      connects |-> 0, events |-> << >> ]

\* _health_check: the probe, and on its failure the reconnect's result
health_check(held, alive, exists, sch, o) ==
    IF ProbeOk(held, alive)
    THEN [ ret |-> TRUE, conn |-> held, alive |-> alive,
           exists |-> exists, schema |-> sch, fresh |-> FALSE,
           probe |-> "ok", connects |-> 0, events |-> << >> ]
    ELSE [ connect_database(held, alive, exists, sch, o)
             EXCEPT !.probe = "failed" ]

\* The objects _setup_schema looks up before it creates them: the
\* extension (SELECT ... FROM pg_extension) and the two hypertables
\* (SELECT ... FROM _timescaledb_catalog.hypertable)
LookedUp == {"ext_timescaledb", "hyper_water_readings",
             "hyper_maintenance_log"}

\* What an earlier run, or an operator's hand, can have left in the
\* target database: a hypertable needs its table and the extension, an
\* index needs its table
ConsistentSchemas ==
    { S \in SUBSET SchemaObjects :
        /\ "hyper_water_readings" \in S =>
               {"ext_timescaledb", "tbl_water_readings"} \subseteq S
        /\ "hyper_maintenance_log" \in S =>
               {"ext_timescaledb", "tbl_maintenance_log"} \subseteq S
        /\ "idx_water_readings_meter_time" \in S =>
               "tbl_water_readings" \in S
        /\ "idx_maintenance_log_meter_time" \in S =>
               "tbl_maintenance_log" \in S
        /\ "idx_maintenance_log_type" \in S => "tbl_maintenance_log" \in S }

\* A bootstrap that never creates what it looks up
SendsStatement_Skips(obj, sch) == obj \notin LookedUp

\* A bootstrap that sends every creating statement, whatever it found
SendsStatement_Always(obj, sch) == TRUE

\* _setup_schema sends the creating statement of obj: always for the
\* CREATE ... IF NOT EXISTS of the tables and indexes, and only `if not
\* cursor.fetchone()` for the extension and the hypertables
SendsStatement(obj, sch) == obj \notin LookedUp \/ obj \notin sch

\* The server rejects the statement: create_hypertable on a table that is
\* a hypertable already is an error; the IF NOT EXISTS statements are not
ServerRejects(obj, sch) ==
    /\ obj \in {"hyper_water_readings", "hyper_maintenance_log"}
    /\ obj \in sch

\* _setup_schema on a live connection.  failAt is the step that fails for
\* a reason outside the program (0: none).  The steps run in the order of
\* SchemaOrder up to the first one that fails; sent lists the objects
\* whose creating statement was sent.
setup_schema(sch, failAt) ==
    LET Fails(i) == \/ i = failAt
                    \/ /\ SendsStatement(SchemaOrder[i], sch)
                       /\ ServerRejects(SchemaOrder[i], sch)
        failing == { i \in 1..Len(SchemaOrder) : Fails(i) }
        stop == IF failing = {} THEN 0
                ELSE CHOOSE i \in failing : \A j \in failing : i <= j
        done == IF stop = 0 THEN Len(SchemaOrder) ELSE stop - 1
        tried == IF stop = 0 \/ stop = failAt THEN done ELSE stop
    IN  [ ret |-> (stop = 0),
          schema |-> sch \cup { obj \in { SchemaOrder[i] : i \in 1..done } :
                                   SendsStatement(obj, sch) },
          sent |-> SelectSeq(SubSeq(SchemaOrder, 1, tried),
                             LAMBDA obj : SendsStatement(obj, sch)) ]

\* The server accepts the INSERT of _store_reading
InsertPossible(held, alive, exists, sch) ==
    /\ held = "open"
    /\ alive
    /\ exists
    /\ "tbl_water_readings" \in sch

\* The arguments of the INSERT evaluate: float() and int() of the mandatory
\* values and float() of the offset (0 when the key is absent)
ArgsEvaluate(data) ==
    /\ data.shape = "object"
    /\ \A f \in Mandatory : data.val[f] = "num"
    /\ data.offset # "bad"

\* A row whose offset has no default
insert_row_NoDefault(data) ==
    [ time |-> "datetime.now()",
      meter |-> "self.meter_id",
      total |-> "float(total_liter_m3)",
      flow |-> "float(active_liter_lpm)",
      wifi |-> "int(wifi_strength)",
      ssid |-> IF data.ssid = "absent" THEN "None" ELSE "wifi_ssid",
      offset |-> "float(total_liter_offset_m3)" ]

\* The row _store_reading hands to cursor.execute, each column named by
\* the expression of the argument tuple that gives it
insert_row(data) ==
    [ time |-> "datetime.now()",
      meter |-> "self.meter_id",
      total |-> "float(total_liter_m3)",
      flow |-> "float(active_liter_lpm)",
      wifi |-> "int(wifi_strength)",
      ssid |-> IF data.ssid = "absent" THEN "None" ELSE "wifi_ssid",
      offset |-> IF data.offset = "absent" THEN "float(0)"
                 ELSE "float(total_liter_offset_m3)" ]

\* The INSERT statements _store_reading sends: cursor.execute is called
\* once, after its arguments have been evaluated
store_statements(data) ==
    IF ArgsEvaluate(data) THEN << "insert" >> ELSE << >>

\* _store_reading: ret is "true", "false" or "raise"
store_reading(data, possible, accepted) ==
    IF ~ArgsEvaluate(data) THEN "raise"
    ELSE IF possible /\ accepted THEN "true"
    ELSE "false"

(***************************************************************************)
(* run(): the failure budget.                                              *)
(***************************************************************************)
\* A count that leaves the counter as it is
CountFailure_Skip(c) == c

\* consecutive_failures += 1
CountFailure(c) == IF c < CfCap THEN c + 1 ELSE c

\* A reset that steps the counter down instead of clearing it
ResetFailures_Decrement(c) == IF c > 0 THEN c - 1 ELSE 0

\* consecutive_failures = 0
ResetFailures(c) == 0

\* The ceiling test written with > instead of >=
BudgetExhausted_OffByOne(c) == c > max_consecutive_failures

\* consecutive_failures >= max_consecutive_failures
BudgetExhausted(c) == c >= max_consecutive_failures

(***************************************************************************)
(* Initial state: one of the two programs has been started, the daemon     *)
(* (main() of water-python-api.py) or the maintenance CLI, and its         *)
(* constructor is about to run with the credentials the environment gives. *)
(* The target database may be absent, fresh, or provisioned by an earlier  *)
(* run.                                                                    *)
(***************************************************************************)
Init ==
    /\ pc \in {"init", "cli_main"}
    /\ command \in (IF pc = "cli_main" THEN Commands \cup {"none"}
                                     ELSE {"none"})
    /\ cliConn = "pending"
    /\ cliRan = "no"
    /\ db_user \in BOOLEAN
    /\ db_password \in BOOLEAN
    /\ handlers = FALSE
    /\ running = FALSE
    /\ db_conn = "None"
    /\ consecutive_failures = 0
    /\ reading_data = NoneData
    /\ exit_status = -1
    /\ sleepLeft = 0
    /\ dbExists \in BOOLEAN
    /\ schema \in (IF dbExists THEN ConsistentSchemas ELSE {{}})
    /\ connAlive = FALSE
    /\ stopRequested = FALSE
    /\ stopInSleep = FALSE
    /\ cycleStop = NoStop
    /\ outcome = "none"
    /\ cycleOps = << >>
    /\ onlyMisses = TRUE
    /\ setupCalled = FALSE
    /\ startup = "pending"
    /\ nHealth = 0
    /\ nRead = 0
    /\ nWrite = 0
    /\ nClose = 0
    /\ call = NoCall

(***************************************************************************)
(* Construction.                                                           *)
(***************************************************************************)
\* A test that asks for the user name only
credentials_ok_UserOnly(user, password) == user

\* `if not self.db_user or not self.db_password:` is false
credentials_ok(user, password) == user /\ password

\* WaterMeterDaemon.__init__: sys.exit(1) without credentials, else
\* signal.signal for SIGINT and SIGTERM; main() then calls run()
Construct ==
    /\ UNCHANGED cliVars
    /\ UNCHANGED cycleOps
    /\ pc = "init"
    /\ IF credentials_ok(db_user, db_password)
       THEN /\ handlers' = TRUE
            /\ pc' = "connect"
            /\ UNCHANGED exit_status
       ELSE /\ pc' = "exited"
            /\ exit_status' = 1
            /\ UNCHANGED handlers
    /\ UNCHANGED << db_user, db_password >>
    /\ UNCHANGED << running, db_conn, consecutive_failures, reading_data,
                    sleepLeft >>
    /\ UNCHANGED storeVars
    /\ UNCHANGED histVars
    /\ UNCHANGED call

\* MaintenanceLogger.__init__: the same test; it installs no handler
cli_credentials_ok(user, password) == user /\ password

CliConstruct ==
    /\ UNCHANGED cliVars
    /\ UNCHANGED cycleOps
    /\ pc = "cli_init"
    /\ IF cli_credentials_ok(db_user, db_password)
       THEN pc' = "cli_connect" /\ UNCHANGED exit_status
       ELSE pc' = "cli_exited" /\ exit_status' = 1
    /\ UNCHANGED confVars
    /\ UNCHANGED << running, db_conn, consecutive_failures, reading_data,
                    sleepLeft >>
    /\ UNCHANGED storeVars
    /\ UNCHANGED histVars
    /\ UNCHANGED call

\* main(): `if not args.command: parser.print_help(); return`, before the
\* logger is constructed
CliParse ==
    /\ pc = "cli_main"
    /\ IF command = "none"
       THEN pc' = "cli_returned" /\ exit_status' = 0
       ELSE pc' = "cli_init" /\ UNCHANGED exit_status
    /\ UNCHANGED cliVars
    /\ UNCHANGED confVars
    /\ UNCHANGED << running, db_conn, consecutive_failures, reading_data,
                    sleepLeft >>
    /\ UNCHANGED storeVars
    /\ UNCHANGED histVars
    /\ UNCHANGED << cycleOps, call >>

\* MaintenanceLogger.connect_database: one attempt on the target database,
\* no creation; psycopg2.Error is logged and turned into False
cli_connect_database(reachable, exists) == reachable /\ exists

\* `if not logger.connect_database(): sys.exit(1)`, outside the try
CliConnect ==
    /\ pc = "cli_connect"
    /\ \E reachable \in BOOLEAN :
         IF cli_connect_database(reachable, dbExists)
         THEN /\ db_conn' = "open"
              /\ connAlive' = TRUE
              /\ cliConn' = "open"
              /\ pc' = "cli_command"
              /\ UNCHANGED exit_status
         ELSE /\ cliConn' = "failed"
              /\ pc' = "cli_exited"
              /\ exit_status' = 1
              /\ UNCHANGED << db_conn, connAlive >>
    /\ UNCHANGED << command, cliRan >>
    /\ UNCHANGED confVars
    /\ UNCHANGED << running, consecutive_failures, reading_data, sleepLeft >>
    /\ UNCHANGED << dbExists, schema >>
    /\ UNCHANGED histVars
    /\ UNCHANGED << cycleOps, call >>

\* How a command method can end: every statement it sends touches
\* maintenance_log, and `except psycopg2.Error` absorbs what the server or
\* the link refuses ("absorbed"); any other exception leaves the method
\* ("raised").
CommandOutcomes(alive, exists, sch) ==
    (IF alive /\ exists /\ "tbl_maintenance_log" \in sch THEN {"ok"} ELSE {})
        \cup {"absorbed", "raised"}

\* the body of main()'s try: the dispatch on args.command; main() ignores
\* what the method returns
CliCommand ==
    /\ pc = "cli_command"
    /\ \E o \in CommandOutcomes(connAlive, dbExists, schema) : cliRan' = o
    /\ pc' = "cli_finally"
    /\ UNCHANGED << command, cliConn >>
    /\ UNCHANGED confVars
    /\ UNCHANGED << running, db_conn, consecutive_failures, reading_data,
                    exit_status, sleepLeft >>
    /\ UNCHANGED storeVars
    /\ UNCHANGED histVars
    /\ UNCHANGED << cycleOps, call >>

\* A finally clause that closes nothing
cli_finally_Skip(held) == held

\* `if hasattr(logger, 'db_conn') and logger.db_conn: logger.db_conn.close()`
cli_finally(held) == IF held # "None" THEN "closed" ELSE held

\* main()'s finally clause, then main() returns or the exception that left
\* the command ends the process
CliFinally ==
    /\ pc = "cli_finally"
    /\ db_conn' = cli_finally(db_conn)
    /\ connAlive' = IF db_conn' = "open" THEN connAlive ELSE FALSE
    /\ IF cliRan = "raised"
       THEN pc' = "cli_exited" /\ exit_status' = 1
       ELSE pc' = "cli_returned" /\ exit_status' = 0
    /\ UNCHANGED cliVars
    /\ UNCHANGED confVars
    /\ UNCHANGED << running, consecutive_failures, reading_data, sleepLeft >>
    /\ UNCHANGED << dbExists, schema >>
    /\ UNCHANGED histVars
    /\ UNCHANGED << cycleOps, call >>

(***************************************************************************)
(* run(): startup.                                                         *)
(***************************************************************************)
\* A startup that goes on after a failed connection
AfterConnect_Ignore(ok) == "setup"

\* if not self._connect_database(): sys.exit(1)
AfterConnect(ok) == IF ok THEN "setup" ELSE "exited"

\* if not self._setup_schema(): sys.exit(1)
AfterSetup(ok) == IF ok THEN "start_loop" ELSE "exited"

RunConnect ==
    /\ UNCHANGED cliVars
    /\ UNCHANGED cycleOps
    /\ UNCHANGED confVars
    /\ pc = "connect"
    /\ \E o \in ConnectOutcomes :
         LET r == connect_database(db_conn, connAlive, dbExists, schema, o)
         IN  /\ db_conn' = r.conn
             /\ connAlive' = r.alive
             /\ dbExists' = r.exists
             /\ schema' = r.schema
             /\ pc' = AfterConnect(r.ret)
             /\ exit_status' = IF pc' = "exited" THEN 1 ELSE exit_status
             /\ startup' = IF r.ret THEN "connected" ELSE "connect_failed"
             /\ call' = [NoCall EXCEPT !.op = "connect",
                                       !.held = db_conn,
                                       !.ret = BoolStr(r.ret),
                                       !.connects = r.connects,
                                       !.events = r.events,
                                       !.fresh = r.fresh,
                                       !.log = connect_log(r.events) \cup
                                           run_log(IF r.ret THEN "connected"
                                                   ELSE "connect_failed")]
    /\ UNCHANGED << running, consecutive_failures, reading_data, sleepLeft >>
    /\ UNCHANGED << sigHist, cycleHist, setupCalled, opCounts >>

RunSetupSchema ==
    /\ UNCHANGED cliVars
    /\ UNCHANGED cycleOps
    /\ UNCHANGED confVars
    /\ pc = "setup"
    /\ \E failAt \in 0..Len(SchemaOrder) :
         /\ (connAlive /\ dbExists) \/ failAt = 1
         /\ LET r == setup_schema(schema, failAt)
            IN  /\ schema' = r.schema
                /\ pc' = AfterSetup(r.ret)
                /\ exit_status' = IF pc' = "exited" THEN 1 ELSE exit_status
                /\ startup' = IF r.ret THEN "ready" ELSE "schema_failed"
                /\ call' = [NoCall EXCEPT !.op = "setup",
                                          !.ret = BoolStr(r.ret),
                                          !.before = schema,
                                          !.after = r.schema,
                                          !.events = r.sent,
                                          !.failAt = failAt,
                                          !.log = setup_log(r.ret) \cup
                                              run_log(IF r.ret THEN "ready"
                                                      ELSE "schema_failed")]
    /\ setupCalled' = TRUE
    /\ UNCHANGED << running, db_conn, consecutive_failures, reading_data,
                    sleepLeft, dbExists, connAlive >>
    /\ UNCHANGED << sigHist, cycleHist, opCounts >>

\* self.running = True; consecutive_failures = 0
RunStartLoop ==
    /\ UNCHANGED cliVars
    /\ UNCHANGED cycleOps
    /\ UNCHANGED confVars
    /\ pc = "start_loop"
    /\ running' = TRUE
    /\ consecutive_failures' = 0
    /\ pc' = "while"
    /\ UNCHANGED << db_conn, reading_data, exit_status, sleepLeft >>
    /\ UNCHANGED storeVars
    /\ UNCHANGED histVars
    /\ call' = NoCall

(***************************************************************************)
(* run(): the polling loop.                                                *)
(***************************************************************************)
\* A loop test that does not look at the flag
WhileNext_Always(r) == "health"

\* while self.running: the body or, the flag clear, the cleanup
WhileNext(r) == IF r THEN "health" ELSE "cleanup"

\* while self.running:
WhileCheck ==
    /\ UNCHANGED cliVars
    /\ UNCHANGED confVars
    /\ pc = "while"
    /\ pc' = WhileNext(running)
    /\ cycleOps' = << >>
    /\ outcome' = "none"
    /\ UNCHANGED << running, db_conn, consecutive_failures, reading_data,
                    exit_status, sleepLeft >>
    /\ UNCHANGED storeVars
    /\ UNCHANGED << sigHist, onlyMisses, startHist, opCounts >>
    /\ call' = NoCall

\* A handler that counts the exception and goes on without the sleep
Fault_NoCooldown ==
    /\ consecutive_failures' = CountFailure(consecutive_failures)
    /\ outcome' = "fault"
    /\ onlyMisses' = FALSE
    /\ pc' = "while"
    /\ sleepLeft' = 0

\* An exception raised inside the try block: `except Exception` counts it
\* and sleeps 30 seconds; no test against the ceiling follows.
Fault ==
    /\ consecutive_failures' = CountFailure(consecutive_failures)
    /\ outcome' = "fault"
    /\ onlyMisses' = FALSE
    /\ pc' = "sleep_fault"
    /\ sleepLeft' = SleepTicks

\* A loop that goes on to the read after a failed health check
AfterHealthFailure_ReadsOn(c) == "read"

\* After a failed health check: `break` at the ceiling, else
\* time.sleep(30) and `continue`
AfterHealthFailure(c) ==
    IF BudgetExhausted(c) THEN "cleanup" ELSE "sleep_health"

\* if not self._health_check(): count, then break or sleep(30) and continue
HealthCheck ==
    /\ UNCHANGED cliVars
    /\ UNCHANGED confVars
    /\ pc = "health"
    /\ \E o \in ConnectOutcomes :
         LET r == health_check(db_conn, connAlive, dbExists, schema, o)
             c == CountFailure(consecutive_failures)
         IN  /\ db_conn' = r.conn
             /\ connAlive' = r.alive
             /\ dbExists' = r.exists
             /\ schema' = r.schema
             /\ cycleOps' = Append(cycleOps, [op |-> "health",
                                              ret |-> BoolStr(r.ret)])
             /\ call' = [NoCall EXCEPT !.op = "health",
                                       !.held = db_conn,
                                       !.ret = BoolStr(r.ret),
                                       !.probe = r.probe,
                                       !.connects = r.connects,
                                       !.events = r.events,
                                       !.fresh = r.fresh,
                                       !.log =
                                           health_log(r.probe, r.events) \cup
                                           run_log(IF ~r.ret /\
                                                      BudgetExhausted(c)
                                                   THEN "exhausted"
                                                   ELSE "none")]
             /\ IF r.ret
                THEN /\ pc' = "read"
                     /\ UNCHANGED << consecutive_failures, sleepLeft,
                                     cycleHist >>
                ELSE /\ consecutive_failures' = c
                     /\ outcome' = "health_failed"
                     /\ onlyMisses' = FALSE
                     /\ pc' = AfterHealthFailure(c)
                     /\ sleepLeft' = IF pc' = "sleep_health"
                                     THEN SleepTicks ELSE sleepLeft
    /\ nHealth' = BumpFew(nHealth)
    /\ UNCHANGED << running, reading_data, exit_status >>
    /\ UNCHANGED << sigHist, startHist, nRead, nWrite, nClose >>

\* reading_data = self._read_meter(); `if reading_data:` ... `else:` a miss
\* is counted
ReadMeter ==
    /\ UNCHANGED cliVars
    /\ UNCHANGED confVars
    /\ pc = "read"
    /\ \E resp \in Responses :
         LET r == read_meter(resp)
         IN  /\ cycleOps' = Append(cycleOps, [op |-> "read", ret |-> r.ret])
             /\ call' = [NoCall EXCEPT !.op = "read",
                                       !.ret = r.ret,
                                       !.http = resp.http,
                                       !.shape = resp.body.shape,
                                       !.lacking = Lacking(resp.body),
                                       !.log = read_log(r.ret) \cup
                                           run_log(IF r.ret = "raise"
                                                   THEN "fault" ELSE "none")]
             /\ CASE r.ret = "raise" ->
                    Fault /\ UNCHANGED reading_data
               [] r.ret # "raise" /\ Truthy(r.data) ->
                    /\ reading_data' = r.data
                    /\ onlyMisses' = FALSE
                    /\ pc' = "store"
                    /\ UNCHANGED << consecutive_failures, outcome, sleepLeft >>
               [] OTHER ->
                    /\ reading_data' = r.data
                    /\ consecutive_failures' =
                           CountFailure(consecutive_failures)
                    /\ outcome' = "read_miss"
                    /\ pc' = "budget"
                    /\ UNCHANGED << onlyMisses, sleepLeft >>
    /\ nRead' = Bump(nRead)
    /\ UNCHANGED << running, db_conn, exit_status >>
    /\ UNCHANGED storeVars
    /\ UNCHANGED << sigHist, startHist, nHealth, nWrite, nClose >>

\* if self._store_reading(reading_data): reset, else: count
StoreReading ==
    /\ UNCHANGED cliVars
    /\ UNCHANGED confVars
    /\ pc = "store"
    /\ \E accepted \in BOOLEAN :
         LET r == store_reading(reading_data,
                     InsertPossible(db_conn, connAlive, dbExists, schema),
                     accepted)
         IN  /\ cycleOps' = Append(cycleOps, [op |-> "store", ret |-> r])
             /\ call' = [NoCall EXCEPT
                            !.op = "store",
                            !.ret = r,
                            !.shape = reading_data.shape,
                            !.numeric =
                                /\ reading_data.shape = "object"
                                /\ \A f \in Mandatory :
                                       reading_data.val[f] = "num",
                            !.offset =
                                IF reading_data.shape = "object"
                                THEN reading_data.offset ELSE "absent",
                            !.ssid =
                                IF reading_data.shape = "object"
                                THEN reading_data.ssid ELSE "absent",
                            !.stored =
                                /\ ArgsEvaluate(reading_data)
                                /\ accepted
                                /\ InsertPossible(db_conn, connAlive,
                                                  dbExists, schema),
                            !.events = store_statements(reading_data),
                            !.row = IF ArgsEvaluate(reading_data)
                                    THEN insert_row(reading_data)
                                    ELSE NoRow,
                            !.log = store_log(r) \cup
                                    run_log(IF r = "raise" THEN "fault"
                                            ELSE "none")]
             /\ CASE r = "raise" ->
                    Fault
               [] r = "true" ->
                    /\ consecutive_failures' =
                           ResetFailures(consecutive_failures)
                    /\ outcome' = "ok"
                    /\ pc' = "budget"
                    /\ UNCHANGED << sleepLeft, onlyMisses >>
               [] OTHER ->
                    /\ consecutive_failures' =
                           CountFailure(consecutive_failures)
                    /\ outcome' = "write_failed"
                    /\ pc' = "budget"
                    /\ UNCHANGED << sleepLeft, onlyMisses >>
    /\ nWrite' = BumpFew(nWrite)
    /\ reading_data' = NoneData   \* dead from here on: the next use follows
                                  \* the next assignment
    /\ UNCHANGED << running, db_conn, exit_status >>
    /\ UNCHANGED storeVars
    /\ UNCHANGED << sigHist, startHist, nHealth, nRead, nClose >>

\* if consecutive_failures >= max_consecutive_failures: break
BudgetCheck ==
    /\ UNCHANGED cliVars
    /\ UNCHANGED cycleOps
    /\ UNCHANGED confVars
    /\ pc = "budget"
    /\ pc' = IF BudgetExhausted(consecutive_failures)
             THEN "cleanup" ELSE "running_check"
    /\ UNCHANGED << running, db_conn, consecutive_failures, reading_data,
                    exit_status, sleepLeft >>
    /\ UNCHANGED storeVars
    /\ UNCHANGED histVars
    /\ call' = NoCall

\* An end of cycle that takes the cool-down sleep
AfterCycle_Cooldown(r) == IF r THEN "sleep_fault" ELSE "while"

\* The end of a cycle: the interval sleep, or the loop test at once when
\* the flag is clear
AfterCycle(r) == IF r THEN "sleep_interval" ELSE "while"

\* if self.running: time.sleep(self.collection_interval)
RunningCheck ==
    /\ UNCHANGED cliVars
    /\ UNCHANGED cycleOps
    /\ UNCHANGED confVars
    /\ pc = "running_check"
    /\ pc' = AfterCycle(running)
    /\ sleepLeft' = IF pc' \in SleepPcs THEN SleepTicks ELSE sleepLeft
    /\ UNCHANGED << running, db_conn, consecutive_failures, reading_data,
                    exit_status >>
    /\ UNCHANGED storeVars
    /\ UNCHANGED histVars
    /\ call' = NoCall

\* time.sleep(...) runs on; when it returns the loop tests self.running
SleepTick ==
    /\ UNCHANGED cliVars
    /\ UNCHANGED cycleOps
    /\ UNCHANGED confVars
    /\ pc \in SleepPcs
    /\ sleepLeft > 0
    /\ sleepLeft' = sleepLeft - 1
    /\ pc' = IF sleepLeft' = 0 THEN "while" ELSE pc
    /\ UNCHANGED << running, db_conn, consecutive_failures, reading_data,
                    exit_status >>
    /\ UNCHANGED storeVars
    /\ UNCHANGED histVars
    /\ call' = NoCall

\* A cleanup that leaves the handle open
CloseHeld_Skip(held) == held

\* if self.db_conn: self.db_conn.close()
CloseHeld(held) == IF held # "None" THEN "closed" ELSE held

\* the cleanup after the loop; run() and main() return
Cleanup ==
    /\ UNCHANGED cliVars
    /\ UNCHANGED cycleOps
    /\ UNCHANGED confVars
    /\ pc = "cleanup"
    /\ db_conn' = CloseHeld(db_conn)
    /\ nClose' = IF db_conn' # db_conn THEN BumpFew(nClose) ELSE nClose
    /\ connAlive' = (connAlive /\ db_conn' = "open")
    /\ pc' = "returned"
    /\ exit_status' = 0
    /\ UNCHANGED << running, consecutive_failures, reading_data, sleepLeft,
                    dbExists, schema >>
    /\ UNCHANGED << sigHist, cycleHist, startHist, nHealth, nRead, nWrite >>
    /\ call' = NoCall

(***************************************************************************)
(* The environment.                                                        *)
(***************************************************************************)
\* A handler that logs and leaves the flag alone
signal_handler_Keep(r) == r

\* _signal_handler: self.running = False
signal_handler(r) == FALSE

\* SIGINT or SIGTERM is delivered and _signal_handler runs.  A time.sleep
\* in progress resumes after the handler returns.
Signal ==
    /\ UNCHANGED cliVars
    /\ UNCHANGED cycleOps
    /\ UNCHANGED confVars
    /\ pc \notin EndPcs
    /\ handlers
    /\ running' = signal_handler(running)
    /\ stopRequested' = TRUE
    /\ stopInSleep' = (stopInSleep \/ pc \in SleepPcs)
    /\ cycleStop' = IF cycleStop = NoStop /\ pc \in InCyclePcs
                    THEN [reads |-> nRead, writes |-> nWrite]
                    ELSE cycleStop
    /\ UNCHANGED << pc, db_conn, consecutive_failures, reading_data,
                    exit_status, sleepLeft >>
    /\ UNCHANGED storeVars
    /\ UNCHANGED << cycleHist, startHist, opCounts >>
    /\ UNCHANGED call

\* The link behind the held handle breaks (psycopg2.Error on its next use)
ConnLoss ==
    /\ UNCHANGED cliVars
    /\ UNCHANGED cycleOps
    /\ UNCHANGED confVars
    /\ pc \notin EndPcs
    /\ db_conn = "open"
    /\ connAlive
    /\ connAlive' = FALSE
    /\ UNCHANGED << dbExists, schema >>
    /\ UNCHANGED progVars
    /\ UNCHANGED histVars
    /\ UNCHANGED call

\* The target database is dropped on the server ("does not exist" on the
\* next connection attempt)
DbDrop ==
    /\ UNCHANGED cliVars
    /\ UNCHANGED cycleOps
    /\ UNCHANGED confVars
    /\ pc \notin EndPcs
    /\ dbExists
    /\ dbExists' = FALSE
    /\ schema' = {}
    /\ connAlive' = FALSE
    /\ UNCHANGED progVars
    /\ UNCHANGED histVars
    /\ UNCHANGED call

DaemonNext ==
    \/ Construct
    \/ RunConnect
    \/ RunSetupSchema
    \/ RunStartLoop
    \/ WhileCheck
    \/ HealthCheck
    \/ ReadMeter
    \/ StoreReading
    \/ BudgetCheck
    \/ RunningCheck
    \/ SleepTick
    \/ Cleanup

EnvNext ==
    \/ Signal
    \/ ConnLoss
    \/ DbDrop

CliNext ==
    \/ CliParse
    \/ CliConstruct
    \/ CliConnect
    \/ CliCommand
    \/ CliFinally

Next == DaemonNext \/ CliNext \/ EnvNext

Spec == Init /\ [][Next]_vars

\* The interpreter keeps executing run(): the daemon's next statement is
\* always eventually taken.  Nothing is assumed of the environment.
FairSpec == Spec /\ WF_vars(DaemonNext)

TypeOK ==
    /\ pc \in {"init", "connect", "setup", "start_loop", "while", "health",
               "read", "store", "budget", "running_check", "cleanup"}
              \cup SleepPcs \cup EndPcs \cup CliPcs
    /\ db_user \in BOOLEAN /\ db_password \in BOOLEAN /\ handlers \in BOOLEAN
    /\ running \in BOOLEAN
    /\ db_conn \in {"None", "open", "closed"}
    /\ consecutive_failures \in 0..CfCap
    /\ reading_data \in Bodies \cup {NoneData}
    /\ exit_status \in {-1, 0, 1}
    /\ sleepLeft \in 0..SleepTicks
    /\ dbExists \in BOOLEAN
    /\ schema \subseteq SchemaObjects
    /\ connAlive \in BOOLEAN
    /\ command \in Commands \cup {"none"}
    /\ cliConn \in {"pending", "failed", "open"}
    /\ cliRan \in {"no", "ok", "absorbed", "raised"}
    /\ call.op \in {"none", "connect", "setup", "health", "read", "store"}
    /\ call.ret \in {"none", "true", "false", "data", "raise"}
    /\ call.connects \in 0..1
    /\ call.before \subseteq SchemaObjects
    /\ call.after \subseteq SchemaObjects

(***************************************************************************)
(* Properties.                                                             *)
(***************************************************************************)
\* The polling loop has been left: the cleanup is next or run() is over.
Stopped == pc \in {"cleanup", "returned"}

\* The gateway's connection state, as the data model describes it.
ConnectionState ==
    IF db_conn # "open" \/ ~connAlive \/ ~dbExists THEN "disconnected"
    ELSE IF SchemaObjects \subseteq schema THEN "connected-ready"
    ELSE "connected-unprovisioned"

\* C1: the loop stops in exactly the cycle in which the counter first
\* reaches the ceiling: no health check, read or write is about to run once
\* the counter is at the ceiling, and the loop is not left with the running
\* flag still set (that is, for budget reasons) below the ceiling.
C1_StopsExactlyAtCeiling ==
    /\ BudgetExhausted(consecutive_failures) => pc \notin CyclePcs
    /\ (pc = "cleanup" /\ running) => BudgetExhausted(consecutive_failures)

\* C2: the counter is 0 right after a cycle whose health check, read and
\* write all succeeded, and every step leaves it unchanged, adds one to it
\* or resets it to 0.
C2_ResetAndNoDecrement ==
    /\ [](outcome = "ok" => consecutive_failures = 0)
    /\ [][ \/ consecutive_failures' = consecutive_failures
           \/ consecutive_failures' = consecutive_failures + 1
           \/ consecutive_failures' = 0 ]_vars

\* C2's case: a fully successful cycle that follows two reads without a
\* write, so the counter was reset from a non-zero value.
C2_Witness ==
    /\ outcome = "ok"
    /\ pc = "budget"
    /\ nRead = 3
    /\ nWrite = 1
    /\ consecutive_failures = 0

\* C3: once the polling loop has been entered, if from some point on no
\* cycle succeeds, the loop is eventually left; the daemon does not retry
\* failing cycles forever.
C3_FailingCyclesEndInStop ==
    (<>(pc = "while") /\ <>[](outcome # "ok")) => <>Stopped

\* C4: with no shutdown request, every health check passing and every read
\* a miss, run() performs exactly five reads and no write, leaves the loop
\* right after the fifth miss without another sleep, closes the held
\* connection and returns, so the exit status is 0.
C4_FiveMissesScenario ==
    (onlyMisses /\ ~stopRequested) =>
        /\ nWrite = 0
        /\ nRead <= max_consecutive_failures
        /\ nRead = max_consecutive_failures =>
               pc \in {"budget", "cleanup", "returned"}
        /\ pc = "returned" =>
               /\ nRead = max_consecutive_failures
               /\ db_conn = "closed"
               /\ nClose = 1
               /\ exit_status = 0

\* C4's case: the scenario has run to its end.
C4_Witness ==
    /\ onlyMisses
    /\ ~stopRequested
    /\ pc = "returned"
    /\ nRead = max_consecutive_failures

\* C5: once the signal has been delivered during a sleep, no further cycle
\* starts: the controller is only ever finishing that sleep, at the loop
\* test, in the cleanup or returned, never at a health check, read or write.
C5_StopInSleepStartsNoCycle ==
    stopInSleep => pc \in SleepPcs \cup {"while", "cleanup", "returned"}

\* C5's case: one fully successful cycle, the signal during the sleep that
\* followed it (the only sleep of the run), and run() has ended.
C5_Witness ==
    /\ stopInSleep
    /\ pc = "returned"
    /\ nHealth = 1 /\ nRead = 1 /\ nWrite = 1
    /\ consecutive_failures = 0

\* C6: a shutdown request delivered at any time after the handlers are
\* installed is observed at the next before-cycle checkpoint: at the loop
\* test the running flag is clear whenever a request has been delivered.
C6_RequestNeverLost ==
    (pc = "while" /\ stopRequested) => ~running

\* C7: a shutdown request that arrives during the inter-cycle sleep ends
\* the sleep at that moment: the controller is never still asleep after a
\* request has arrived during its sleep.
C7_SleepEndsOnSignal ==
    (pc = "sleep_interval" /\ sleepLeft > 0) => ~stopInSleep

\* C8: a failed startup is fatal and precedes all polling: after a failed
\* Connect or Bootstrap the process has exited with status 1, no health
\* check, read or write was ever performed and the running flag was never
\* set; after a failed Connect, Bootstrap was not called; and the polling
\* loop is entered only after both succeeded.
C8_StartupFailureIsFatal ==
    /\ startup \in {"connect_failed", "schema_failed"} =>
           /\ pc = "exited"
           /\ exit_status = 1
           /\ nHealth = 0 /\ nRead = 0 /\ nWrite = 0
           /\ ~running
    /\ startup = "connect_failed" => ~setupCalled
    /\ pc \in CyclePcs \cup SleepPcs \cup {"while", "budget", "running_check"}
           => startup = "ready"

\* C8's case: Connect succeeded, Bootstrap failed, the process has exited.
C8_Witness ==
    /\ startup = "schema_failed"
    /\ pc = "exited"
    /\ db_conn = "open"

\* C9: Stopped is terminal and orderly: the held connection is closed
\* exactly once, and only when the loop has ended; run() then returns with
\* exit status 0; and nothing happens after the return.
C9_StoppedIsTerminal ==
    /\ [](pc = "returned" =>
             /\ db_conn = "closed"
             /\ nClose = 1
             /\ exit_status = 0)
    /\ [](pc # "returned" => nClose = 0)
    /\ [][pc = "returned" => UNCHANGED vars]_vars

\* C9's case: the loop ended by exhaustion of the failure budget.
C9_Witness ==
    /\ pc = "returned"
    /\ ~stopRequested
    /\ BudgetExhausted(consecutive_failures)
    /\ nClose = 1

\* C10: _store_reading never runs while the gateway is connected to a
\* store whose schema is not provisioned.
C10_WriteOnlyWhenProvisioned ==
    pc = "store" => ConnectionState # "connected-unprovisioned"

(***************************************************************************)
(* The gateway: Connect and HealthCheck.                                   *)
(***************************************************************************)
\* The number of events of the set es in the event sequence ev
CountOf(ev, es) == Cardinality({ i \in 1..Len(ev) : ev[i] \in es })

TargetAttempts == {"target:opened", "target:refused", "target:missing"}
CreateCommands == {"create:done", "create:failed"}

\* A call of _connect_database has just been made, by run() or by
\* _health_check
ConnectMade == call.op \in {"connect", "health"} /\ call.connects = 1

\* The first open attempt failed because the database is missing, and the
\* administrative connection was opened
CreationPath ==
    /\ ConnectMade
    /\ Len(call.events) >= 2
    /\ call.events[1] = "target:missing"
    /\ call.events[2] = "admin:opened"

\* C11 as stated: whenever the database is missing and the administrative
\* connection opens, Connect creates the database once, closes the
\* administrative connection, opens the target once more, in this order,
\* and returns success holding the newly opened handle.
C11_CreationAlwaysSucceeds ==
    CreationPath =>
        /\ call.events = << "target:missing", "admin:opened", "create:done",
                            "admin:closed", "target:opened" >>
        /\ call.ret = "true"
        /\ call.fresh /\ db_conn = "open"

\* C11, amended: when moreover the create-database command succeeds,
\* Connect has issued exactly one create-database command, then closed the
\* administrative connection, then made exactly one further open attempt
\* on the target, and it returns success, holding the newly opened handle,
\* exactly when that attempt succeeded.
C11_CreationPath ==
    (CreationPath /\ call.events[3] = "create:done") =>
        /\ Len(call.events) = 5
        /\ call.events[4] = "admin:closed"
        /\ call.events[5] \in {"target:opened", "target:refused"}
        /\ CountOf(call.events, CreateCommands) = 1
        /\ CountOf(call.events, TargetAttempts) = 2
        /\ (call.ret = "true") = (call.events[5] = "target:opened")
        /\ call.events[5] = "target:opened" =>
               call.fresh /\ db_conn = "open"
        /\ call.events[5] = "target:refused" => ~call.fresh

\* C11's case: the database was missing, it was created and the second
\* open attempt gave the handle now held.
C11_Witness ==
    /\ CreationPath
    /\ call.events[3] = "create:done"
    /\ call.ret = "true"
    /\ db_conn = "open"
    /\ dbExists

\* C12: every other connection failure makes Connect return failure as a
\* value, with no attempt after the failing step; one call makes at most
\* two open attempts on the target and issues at most one create-database
\* command.
C12_FailureIsAValue ==
    ConnectMade =>
        LET ev == call.events
            last == ev[Len(ev)]
        IN  /\ call.ret \in {"true", "false"}
            /\ (call.ret = "false") =
                   (last \in {"target:refused", "admin:refused",
                              "create:failed"})
            /\ call.ret = "false" => ~call.fresh
            /\ \A i \in 1..Len(ev) :
                   ev[i] \in {"target:refused", "admin:refused",
                              "create:failed", "target:opened"}
                       => i = Len(ev)
            /\ CountOf(ev, TargetAttempts) <= 2
            /\ CountOf(ev, CreateCommands) <= 1

\* C12's case: the database was created but the retry was refused, and
\* the call returned failure after two open attempts on the target.
C12_Witness ==
    /\ ConnectMade
    /\ call.ret = "false"
    /\ CountOf(call.events, TargetAttempts) = 2
    /\ CountOf(call.events, CreateCommands) = 1

\* C13: HealthCheck returns true without calling Connect when the probe
\* succeeds; when the probe fails it calls Connect exactly once and
\* returns what Connect returned.
C13_HealthCheckReconnects ==
    call.op = "health" =>
        /\ call.probe \in {"ok", "failed"}
        /\ call.probe = "ok" =>
               /\ call.ret = "true"
               /\ call.connects = 0
               /\ call.events = << >>
        /\ call.probe = "failed" =>
               /\ call.connects = 1
               /\ Len(call.events) >= 1
               /\ (call.ret = "true") =
                      (call.events[Len(call.events)] = "target:opened")

\* C13's case: the probe failed and the one reconnection succeeded.
C13_Witness ==
    /\ call.op = "health"
    /\ call.probe = "failed"
    /\ call.connects = 1
    /\ call.ret = "true"

(***************************************************************************)
(* Bootstrap.                                                              *)
(***************************************************************************)
\* C14: Bootstrap is idempotent: _setup_schema run on a fully provisioned
\* store sends no create-extension and no create-hypertable statement,
\* leaves the set of schema objects (one extension, two tables, two
\* hypertables, three indexes) as it was, and succeeds unless a step fails
\* for a reason outside the program.
C14_BootstrapIdempotent ==
    (call.op = "setup" /\ call.before = SchemaObjects) =>
        /\ call.after = call.before
        /\ Cardinality(call.after) = 8
        /\ \A i \in 1..Len(call.events) : call.events[i] \notin LookedUp
        /\ (call.ret = "true") = (call.failAt = 0)

\* C14's case: _setup_schema has run to its end on a store that an
\* earlier run had provisioned in full.
C14_Witness ==
    /\ call.op = "setup"
    /\ call.before = SchemaObjects
    /\ call.ret = "true"
    /\ Len(call.events) = 5
    /\ schema = SchemaObjects

(***************************************************************************)
(* Read and Write.                                                         *)
(***************************************************************************)
\* C15: whatever the shape of the body received, when it lacks a mandatory
\* field _read_meter returns no sample and does not raise.
C15_LackingBodyIsNoSample ==
    (call.op = "read" /\ call.shape # "none" /\ call.lacking) =>
        call.ret = "none"

\* C16: a record with its three mandatory values in order and its offset
\* absent or not a number is written with offset 0: _store_reading does
\* not raise, the cycle is not counted as a fault, and the row written
\* carries 0 as its offset.
C16_OffsetCoercedToZero ==
    (call.op = "store" /\ call.numeric /\ call.offset \in {"absent", "bad"})
        => /\ call.ret # "raise"
           /\ outcome # "fault"
           /\ call.row.offset = "float(0)"

\* C17: for every record _read_meter let through, _store_reading returns
\* true or false to run() and raises nothing.
C17_WriteNeverRaises ==
    call.op = "store" => call.ret \in {"true", "false"}

\* C18: every call of _store_reading sends exactly one INSERT, calls
\* _connect_database not at all and opens no new handle.
C18_OneInsertPerWrite ==
    call.op = "store" =>
        /\ Len(call.events) = 1
        /\ call.connects = 0
        /\ ~call.fresh

(***************************************************************************)
(* The cycle: faults and misses.                                           *)
(***************************************************************************)
\* C19: an exception raised by an operation of a polling cycle does not
\* end run(): the step in which it is raised adds exactly one to the
\* failure counter and starts the cool-down sleep; the process has not
\* exited; and the loop test of the next cycle is reached only from the
\* end of that sleep.
C19_FaultIsCountedAndCooled ==
    /\ [][(pc \in CyclePcs /\ call'.ret = "raise") =>
             /\ pc' = "sleep_fault"
             /\ sleepLeft' = SleepTicks
             /\ consecutive_failures < CfCap =>
                    consecutive_failures' = consecutive_failures + 1
             /\ consecutive_failures' >= consecutive_failures
             /\ exit_status' = -1]_vars
    /\ [][pc = "sleep_fault" =>
             \/ pc' = "sleep_fault" /\ exit_status' = -1
             \/ pc' = "while" /\ sleepLeft = 1 /\ sleepLeft' = 0]_vars
    /\ [](outcome = "fault" => pc \in {"sleep_fault", "while"})

\* C19's case: a write has raised; the failure is counted and the loop is
\* in its cool-down sleep.
C19_Witness ==
    /\ call.op = "store"
    /\ call.ret = "raise"
    /\ pc = "sleep_fault"
    /\ sleepLeft = SleepTicks
    /\ consecutive_failures = 1

\* C20: the step in which _read_meter yields no sample adds one to the
\* failure counter and goes to the ceiling test without a write; no write
\* runs in a cycle that had a miss or on anything but a sample; and every
\* INSERT sent carries a whole row made from a record that has all three
\* mandatory values.
C20_MissSkipsWrite ==
    /\ [][(pc = "read" /\ call'.op = "read" /\ call'.ret = "none") =>
             /\ pc' = "budget"
             /\ outcome' = "read_miss"
             /\ nWrite' = nWrite
             /\ consecutive_failures < CfCap =>
                    consecutive_failures' = consecutive_failures + 1
             /\ consecutive_failures' >= consecutive_failures]_vars
    /\ [](outcome = "read_miss" => pc \notin CyclePcs)
    /\ [](pc = "store" => reading_data.shape # "none")
    /\ []((call.op = "store" /\ call.events # << >>) =>
              /\ call.numeric
              /\ call.row.total = "float(total_liter_m3)"
              /\ call.row.flow = "float(active_liter_lpm)"
              /\ call.row.wifi = "int(wifi_strength)")

\* C20's case: the meter gave no sample; the miss is counted, no write
\* has been made and the ceiling test is next.
C20_Witness ==
    /\ call.op = "read"
    /\ call.ret = "none"
    /\ pc = "budget"
    /\ consecutive_failures = 1
    /\ nWrite = 0

(***************************************************************************)
(* The cycle: a failed health check.                                       *)
(***************************************************************************)
\* C21: the step in which _health_check returns False performs no read
\* and no write and adds one to the failure counter; with the counter
\* then below the ceiling the cool-down sleep starts, and from that sleep
\* the loop goes to the loop test of the next cycle and nowhere else;
\* with the counter at the ceiling the loop is left with no sleep.  No read
\* or write follows in a cycle whose health check failed.
C21_HealthFailureSkipsCycle ==
    /\ [][(pc = "health" /\ call'.op = "health" /\ call'.ret = "false") =>
             /\ nRead' = nRead /\ nWrite' = nWrite
             /\ consecutive_failures < CfCap =>
                    consecutive_failures' = consecutive_failures + 1
             /\ consecutive_failures' >= consecutive_failures
             /\ IF consecutive_failures' < max_consecutive_failures
                THEN pc' = "sleep_health" /\ sleepLeft' = SleepTicks
                ELSE pc' = "cleanup" /\ sleepLeft' = 0]_vars
    /\ [][pc = "sleep_health" => pc' \in {"sleep_health", "while"}]_vars
    /\ [](outcome = "health_failed" => pc \notin {"read", "store"})

\* C21's case: the fifth failing cycle is one whose health check failed;
\* the loop has been left without a sleep.
C21_Witness ==
    /\ call.op = "health"
    /\ call.ret = "false"
    /\ pc = "cleanup"
    /\ sleepLeft = 0
    /\ consecutive_failures = max_consecutive_failures

\* C22 as stated: every failed probe of a polling cycle has made one
\* reconnection attempt and is counted as a failure of its cycle.
C22_EveryProbeFailureCounted ==
    (call.op = "health" /\ call.probe = "failed") =>
        /\ call.connects = 1
        /\ outcome = "health_failed"

\* C22, amended: every failed probe of a polling cycle makes one
\* reconnection attempt at once; it is counted in the failure budget, by
\* one, exactly when that reconnection fails, and it leaves the counter as
\* it was when the reconnection succeeds.
C22_ProbeFailureReconnects ==
    /\ []((call.op = "health" /\ call.probe = "failed") =>
              /\ call.connects = 1
              /\ (outcome = "health_failed") = (call.ret = "false"))
    /\ [][(pc = "health" /\ call'.op = "health"
               /\ call'.probe = "failed") =>
             IF call'.ret = "false"
             THEN /\ consecutive_failures < CfCap =>
                         consecutive_failures' = consecutive_failures + 1
                  /\ consecutive_failures' >= consecutive_failures
             ELSE consecutive_failures' = consecutive_failures]_vars

\* C22's case: in a cycle that follows three counted failures the probe
\* failed and the reconnection failed too; the counter stands at four.
C22_Witness ==
    /\ call.op = "health"
    /\ call.probe = "failed"
    /\ call.ret = "false"
    /\ outcome = "health_failed"
    /\ consecutive_failures = 4

(***************************************************************************)
(* Shutdown inside a cycle.                                                *)
(***************************************************************************)
\* A shutdown request has been delivered inside a cycle
InCycleStop == cycleStop # NoStop

\* C23: a shutdown request delivered inside a cycle cancels nothing of
\* that cycle: a read or write that was about to run still runs as the
\* next step of run(); the running flag stays clear from then on, so the
\* next loop test leaves the loop and starts no cycle; and at most one
\* read and at most one write are made after the request.
C23_CycleRunsToItsEnd ==
    /\ [](InCycleStop => ~running)
    /\ [](InCycleStop =>
              /\ nRead <= cycleStop.reads + 1
              /\ nWrite <= cycleStop.writes + 1)
    /\ [][(InCycleStop /\ pc = "while") =>
             pc' \in {"while", "cleanup"}]_vars
    /\ [][(InCycleStop /\ pc = "read" /\ pc' # pc) =>
             (call'.op = "read" /\ nRead' = Bump(nRead))]_vars
    /\ [][(InCycleStop /\ pc = "store" /\ pc' # pc) =>
             (call'.op = "store" /\ nWrite' = BumpFew(nWrite))]_vars

\* C23's case: the request came during the health check of the first
\* cycle; that cycle's read and write were made, and run() has returned
\* after that one cycle.
C23_Witness ==
    /\ cycleStop = [reads |-> 0, writes |-> 0]
    /\ nHealth = 1 /\ nRead = 1 /\ nWrite = 1
    /\ pc = "returned"

(***************************************************************************)
(* Read: the failed exchange.                                              *)
(***************************************************************************)
\* C24: _read_meter returns no sample and does not raise when the request
\* fails or times out, when the status is not a success, and when the
\* body is not valid JSON; run() then counts a miss, not a fault.
C24_FailedExchangeIsNoSample ==
    (call.op = "read" /\ call.http \in {"neterr", "status", "badjson"}) =>
        /\ call.ret = "none"
        /\ outcome = "read_miss"
        /\ pc = "budget"

\* C24's case: the body was not valid JSON and the read gave no sample.
C24_Witness ==
    /\ call.op = "read"
    /\ call.http = "badjson"
    /\ call.ret = "none"
    /\ outcome = "read_miss"

(***************************************************************************)
(* Write: the minimal payload.                                             *)
(***************************************************************************)
\* C25: for a record that carries the three mandatory fields with numeric
\* values and nothing else, _store_reading sends one INSERT whose row has
\* the record's three values converted, the configured meter id, the
\* daemon's own clock reading, 0 as the offset and NULL as the ssid; it
\* raises nothing and returns True when the server takes the INSERT (and
\* only then), which run() records as a successful cycle.
C25_MinimalPayloadRow ==
    (call.op = "store" /\ call.numeric /\ call.offset = "absent"
        /\ call.ssid = "absent") =>
        /\ call.events = << "insert" >>
        /\ call.row = [ time |-> "datetime.now()",
                        meter |-> "self.meter_id",
                        total |-> "float(total_liter_m3)",
                        flow |-> "float(active_liter_lpm)",
                        wifi |-> "int(wifi_strength)",
                        ssid |-> "None",
                        offset |-> "float(0)" ]
        /\ call.ret \in {"true", "false"}
        /\ (call.ret = "true") = call.stored
        /\ call.ret = "true" => outcome = "ok"

\* C25's case: the minimal record has been written and the write
\* returned True.
C25_Witness ==
    /\ call.op = "store"
    /\ call.numeric
    /\ call.offset = "absent"
    /\ call.ssid = "absent"
    /\ call.ret = "true"
    /\ call.stored

(***************************************************************************)
(* Logging of failures.                                                    *)
(***************************************************************************)
\* The call just made has failed
CallFailed ==
    \/ call.op \in {"connect", "setup", "health"} /\ call.ret = "false"
    \/ call.op = "read" /\ call.ret \in {"none", "raise"}
    \/ call.op = "store" /\ call.ret \in {"false", "raise"}

\* C26: every failure is logged in the step in which it happens: each
\* failed Connect, Bootstrap, health check, read and write, and each fault,
\* emits at least one warning or error record; and the failure counter
\* rises only in a step whose call failed and logged so.
C26_FailuresAreLogged ==
    /\ [](CallFailed => call.log \cap {"warning", "error"} # {})
    /\ [](startup \in {"connect_failed", "schema_failed"} =>
              (CallFailed /\ "error" \in call.log))
    /\ [][consecutive_failures' > consecutive_failures =>
             /\ call'.op \in {"health", "read", "store"}
             /\ call'.ret \in {"false", "none", "raise"}
             /\ call'.log \cap {"warning", "error"} # {}]_vars

\* C26's case: a read miss has been counted and an error record was
\* emitted for it.
C26_Witness ==
    /\ call.op = "read"
    /\ call.ret = "none"
    /\ outcome = "read_miss"
    /\ consecutive_failures = 2
    /\ "error" \in call.log

(***************************************************************************)
(* Construction without credentials.                                       *)
(***************************************************************************)
\* The constructor of the program that was started has run (the CLI
\* constructs its logger only when a subcommand was given).
ConstructorRan ==
    /\ pc \notin {"init", "cli_main", "cli_init"}
    /\ pc \in CliPcs => command # "none"

\* C27: when the user or the password is not configured, the constructor
\* of the daemon ends the process with status 1, with no signal handler
\* installed and no connection attempt made; the constructor of the
\* maintenance CLI's logger ends its process with status 1 in the same
\* way.  With both configured neither constructor exits.
C27_NoCredentialsNoStart ==
    /\ (~(db_user /\ db_password) /\ ConstructorRan) =>
           /\ pc \in {"exited", "cli_exited"}
           /\ exit_status = 1
           /\ ~handlers
           /\ startup = "pending"
           /\ db_conn = "None"
           /\ call = NoCall
    /\ (db_user /\ db_password) =>
           /\ pc = "exited" => startup # "pending"
           /\ pc = "cli_exited" => cliConn # "pending"
           /\ pc \notin CliPcs \cup {"init"} => handlers

\* C27's case: the password is missing and the daemon's constructor has
\* ended the process.
C27_Witness ==
    /\ db_user /\ ~db_password
    /\ pc = "exited"
    /\ exit_status = 1

(***************************************************************************)
(* The counter's range and the order of a cycle.                           *)
(***************************************************************************)
\* C28: in every state of the polling loop the failure counter is between
\* 0 and the ceiling.
C28_CounterWithinCeiling ==
    (pc \in InCyclePcs \cup SleepPcs \cup {"while", "cleanup"}) =>
        /\ 0 <= consecutive_failures
        /\ consecutive_failures <= max_consecutive_failures

C30_ClosedOnEveryExit ==
    (pc \in {"returned", "exited"}
        /\ startup \in {"connected", "schema_failed", "ready"}) =>
        db_conn = "closed"

(***************************************************************************)
(* The held handle.                                                        *)
(***************************************************************************)
\* C31: whenever the reconnection of a health check has put a newly
\* opened handle in place of the held one, the handle held before had
\* been closed.
C31_ReplacedHandleWasClosed ==
    (call.op = "health" /\ call.fresh) => call.held # "open"

\* C33: a call of _connect_database that returns failure leaves
\* self.db_conn as it was when the call was made, None at startup and the
\* handle held before in a reconnection; self.db_conn is given a new
\* handle only by a call whose last step opened the target connection,
\* and that call returns success.
C33_FailedConnectKeepsHandle ==
    ConnectMade =>
        /\ call.ret = "false" =>
               /\ ~call.fresh
               /\ db_conn = call.held
        /\ call.op = "connect" => call.held = "None"
        /\ call.fresh =>
               /\ call.ret = "true"
               /\ call.events[Len(call.events)] = "target:opened"
               /\ db_conn = "open"

\* C33's case: the reconnection of a health check failed and the handle
\* held before it is still the one held.
C33_Witness ==
    /\ call.op = "health"
    /\ call.connects = 1
    /\ call.ret = "false"
    /\ call.held = "open"
    /\ db_conn = "open"

\* C32: every call of _connect_database that opened the administrative
\* connection has closed it, after it was opened, by the time it returns.
C32_AdminAlwaysClosed ==
    ConnectMade =>
        \A i \in 1..Len(call.events) :
            call.events[i] = "admin:opened" =>
                \E j \in (i + 1)..Len(call.events) :
                    call.events[j] = "admin:closed"

(***************************************************************************)
(* The sleeps.                                                             *)
(***************************************************************************)
\* C34: once a shutdown request has been delivered inside a cycle, run()
\* is in no sleep again: neither the interval sleep nor a cool-down.
C34_NoSleepAfterCycleStop ==
    InCycleStop => pc \notin SleepPcs

\* C35: the end of a cycle that was not cut short (a success, a read miss
\* or a write failure), with the counter below the ceiling and the flag
\* set (as it is when no shutdown was requested), starts the interval
\* sleep at its full length, and from that sleep
\* the loop test is reached only when it has run out; the interval sleep
\* follows such cycles only, the cool-down of a failed health check only a
\* failed health check, and the cool-down of a fault only a fault.
C35_IntervalSleepAfterSoftFailure ==
    /\ [][(pc = "running_check" /\ running /\ pc' # pc) =>
             /\ outcome \in {"ok", "read_miss", "write_failed"}
             /\ consecutive_failures < max_consecutive_failures
             /\ pc' = "sleep_interval"
             /\ sleepLeft' = SleepTicks]_vars
    /\ [][(pc = "budget" /\ ~BudgetExhausted(consecutive_failures)) =>
             pc' \in {"budget", "running_check"}]_vars
    /\ [][pc = "sleep_interval" =>
             \/ pc' = "sleep_interval"
             \/ pc' = "while" /\ sleepLeft = 1]_vars
    /\ [](pc \in {"budget", "running_check"} =>
              /\ outcome \in {"ok", "read_miss", "write_failed"}
              /\ ~stopRequested => running)
    /\ [](pc = "sleep_interval" =>
              outcome \in {"ok", "read_miss", "write_failed"})
    /\ [](pc = "sleep_health" => outcome = "health_failed")
    /\ [](pc = "sleep_fault" => outcome = "fault")

\* C35's case: a write has failed, no shutdown was requested, and the
\* interval sleep has begun.
C35_Witness ==
    /\ outcome = "write_failed"
    /\ pc = "sleep_interval"
    /\ sleepLeft = SleepTicks
    /\ ~stopRequested
    /\ consecutive_failures = 1

(***************************************************************************)
(* Bootstrap from a partly provisioned store.                              *)
(***************************************************************************)
\* C36: whatever part of the schema exists already, a run of
\* _setup_schema in which no statement fails returns True and leaves all
\* eight objects present, and it has sent the create-extension and the
\* create-hypertable statements for the objects that were missing and for
\* no other.
C36_BootstrapConverges ==
    (call.op = "setup" /\ call.failAt = 0) =>
        /\ call.ret = "true"
        /\ call.after = SchemaObjects
        /\ \A obj \in LookedUp :
               (\E i \in 1..Len(call.events) : call.events[i] = obj)
                   = (obj \notin call.before)

\* C36's case: one table was a hypertable already, the other table, its
\* hypertable and the indexes were missing, and the run has completed the
\* schema.
C36_Witness ==
    /\ call.op = "setup"
    /\ call.before = {"ext_timescaledb", "tbl_water_readings",
                      "hyper_water_readings"}
    /\ call.ret = "true"
    /\ call.after = SchemaObjects

(***************************************************************************)
(* The maintenance CLI's main().                                           *)
(***************************************************************************)
\* C37: in the maintenance CLI, for every command: when the connection
\* attempt fails, main exits with status 1, no command has been executed
\* and no handle is held; a command is executed only on an opened
\* connection; and when the attempt succeeds, the connection is closed once
\* main has returned or the process has ended, whether the command
\* succeeded, absorbed a database error or raised.
C37_CliClosesConnection ==
    /\ cliConn = "failed" =>
           /\ pc = "cli_exited"
           /\ exit_status = 1
           /\ cliRan = "no"
           /\ db_conn = "None"
    /\ cliRan # "no" => cliConn = "open" /\ command \in Commands
    /\ (cliConn = "open" /\ pc \in {"cli_returned", "cli_exited"}) =>
           /\ cliRan # "no"
           /\ db_conn = "closed"
    /\ (cliConn = "open" /\ pc = "cli_returned") =>
           /\ cliRan \in {"ok", "absorbed"}
           /\ exit_status = 0
    /\ (cliConn = "open" /\ pc \notin {"cli_returned", "cli_exited"}) =>
           db_conn = "open"

\* C37's case: a command absorbed a database error and main has returned
\* with the connection closed.
C37_Witness ==
    /\ pc = "cli_returned"
    /\ command = "last-salt"
    /\ cliRan = "absorbed"
    /\ db_conn = "closed"

\* A command raised and the process has ended, the connection closed.
C37_WitnessRaised ==
    /\ pc = "cli_exited"
    /\ cliRan = "raised"
    /\ db_conn = "closed"

\* The connection attempt failed for a command.
C37_WitnessFailed ==
    /\ cliConn = "failed"
    /\ command = "salt"
    /\ exit_status = 1


====
